---- MODULE Spec2Model ----
(***************************************************************************)
(* Model of the UERANSIM gNB operator (src/src/charm.py).                  *)
(*                                                                         *)
(* The charm is a set of event handlers that the host (Juju) runs one at a *)
(* time.  Each handler is one action.  The inputs the handlers read (the   *)
(* configuration, leadership, the two relations, the readiness of the      *)
(* workload container and of Multus) are drawn by Init.  Python strings    *)
(* are sequences of one-character strings, an Optional value is the empty  *)
(* set (None) or a singleton set.  Two history variables record the last   *)
(* write of the running flag and the last start or stop call.              *)
(***************************************************************************)
EXTENDS Integers, Sequences, FiniteSets, TLC

VARIABLES
    config,                  \* self.model.config: option name -> Optional value
    is_leader,               \* self.unit.is_leader()
    n2_created,              \* self.model.relations["fiveg-n2"] is non-empty
    amf_hostname,            \* self._n2_requirer.amf_hostname (Optional)
    amf_port,                \* self._n2_requirer.amf_port (Optional)
    can_connect,             \* self._ueransim_container.can_connect()
    base_dir,                \* /etc exists in the workload
    multus_ready,            \* self._kubernetes_multus.is_ready()
    gnb_identity_relations,  \* ids of the fiveg_gnb_identity relation instances
    status,                  \* self.unit.status
    files,                   \* workload file system: path -> Optional content
    plan,                    \* the "ueransim" pebble layer is in the plan
    proc,                    \* the supervisor runs the ueransim service
    gnb_running,             \* self._stored.gnb_running
    gnb_running_stored,      \* the stored state holds a value for gnb_running
    published,               \* relation id -> Optional published identity
    k8s_service,             \* the Service <app>-external exists in the cluster
    nad,                     \* the descriptors Multus was last handed (Optional)
    last_toggle,             \* history: the last action that wrote the flag
    last_supervisor_call,    \* history: the last start or stop call issued
    event,                   \* the handler the last step ran ("none": none yet)
    calls,                   \* what that handler did with its collaborators, in
                             \* order: gate reads, status updates, declarations,
                             \* writes and supervisor requests
    raised                   \* that handler ended in an uncaught exception

inputs == <<config, is_leader, n2_created, amf_hostname, amf_port, can_connect,
            base_dir, multus_ready, gnb_identity_relations>>
outputs == <<status, files, plan, proc, gnb_running, gnb_running_stored,
             published, k8s_service, nad>>
history == <<last_toggle, last_supervisor_call>>
vars == <<inputs, outputs, history, event, calls, raised>>

---------------------------------------------------------------------------
(* Optional values and strings *)

None == {}
Some(x) == {x}
Val(o) == CHOOSE x \in o : TRUE

\* All strings over the characters S of length at most n.
Strs(S, n) == UNION {[1..k -> S] : k \in 0..n}

---------------------------------------------------------------------------
(* Constants of the charm *)

BASE_CONFIG_PATH == <<"/etc">>
GNB_CONFIG_FILE_NAME == <<"gnb.yaml">>
GNB_NETWORK_ATTACHMENT_DEFINITION_NAME == "gnb-net"
N2_RELATION_NAME == "fiveg-n2"
GNB_IDENTITY_RELATION_NAME == "fiveg_gnb_identity"
GTP_PORT == 4997

\* f"{BASE_CONFIG_PATH}/{GNB_CONFIG_FILE_NAME}"
ConfigFilePath == BASE_CONFIG_PATH \o <<"/">> \o GNB_CONFIG_FILE_NAME
\* The path the unit tests expect the file at.
TestConfigFilePath == <<"/etc", "/", "ueransim", "/", "gnb.yaml">>
Paths == {ConfigFilePath, TestConfigFilePath}

\* str(self.model.get_binding(N2_RELATION_NAME).network.bind_address)
unit_ip == <<"1", "9", "2">>
ModelName == "whatever"
AppName == "ueransim"
\* f"{self.model.name}-ueransim-{self.app.name}"
_gnb_name == <<ModelName, "-ueransim-", AppName>>

---------------------------------------------------------------------------
(* Configuration *)

Keys == {"gnb-address", "gnb-interface", "id-length", "mcc", "mnc", "nci",
         "sd", "sst", "tac"}

_get_gnb_address_from_config == config["gnb-address"]
_get_gnb_interface_from_config == config["gnb-interface"]
_get_id_length_from_config == config["id-length"]
_get_mcc_from_config == config["mcc"]
_get_mnc_from_config == config["mnc"]
_get_nci_from_config == config["nci"]
_get_sd_from_config == config["sd"]
_get_tac_from_config == config["tac"]

\* int(self.model.config.get("sst")): int(None) is a TypeError, which nothing
\* catches.  The option is an integer, so int() of a set value is that value.
_get_sst_from_config ==
    IF config["sst"] = None
    THEN [raised |-> TRUE, value |-> 0]
    ELSE [raised |-> FALSE, value |-> Val(config["sst"])]

\* Python's "not x" for an Optional[str]: None and "" are falsy.
Not(o) == o = None \/ Val(o) = <<>>

AppendIf(list, cond, key) == IF cond THEN Append(list, key) ELSE list

\* _get_invalid_configs without the test of mcc.
_get_invalid_configs_skips_mcc ==
    LET l1 == AppendIf(<<>>, Not(_get_gnb_address_from_config), "gnb-address")
        l2 == AppendIf(l1, Not(_get_id_length_from_config), "id-length")
        l4 == AppendIf(l2, Not(_get_mnc_from_config), "mnc")
        l5 == AppendIf(l4, Not(_get_nci_from_config), "nci")
        l6 == AppendIf(l5, Not(_get_sd_from_config), "sd")
        sst == _get_sst_from_config
        l7 == AppendIf(l6, sst.value = 0, "sst")
        l8 == AppendIf(l7, Not(_get_tac_from_config), "tac")
    IN  IF sst.raised
        THEN [raised |-> TRUE, value |-> <<>>]
        ELSE [raised |-> FALSE, value |-> l8]

\* The list of the invalid options, appended in the order of the checks; the
\* call raises when _get_sst_from_config does.
_get_invalid_configs ==
    LET l1 == AppendIf(<<>>, Not(_get_gnb_address_from_config), "gnb-address")
        l2 == AppendIf(l1, Not(_get_id_length_from_config), "id-length")
        l3 == AppendIf(l2, Not(_get_mcc_from_config), "mcc")
        l4 == AppendIf(l3, Not(_get_mnc_from_config), "mnc")
        l5 == AppendIf(l4, Not(_get_nci_from_config), "nci")
        l6 == AppendIf(l5, Not(_get_sd_from_config), "sd")
        sst == _get_sst_from_config
        l7 == AppendIf(l6, sst.value = 0, "sst")
        l8 == AppendIf(l7, Not(_get_tac_from_config), "tac")
    IN  IF sst.raised
        THEN [raised |-> TRUE, value |-> <<>>]
        ELSE [raised |-> FALSE, value |-> l8]

\* The digits int(s, 16) accepts among the characters the model draws strings
\* from (lower case; signs, prefixes, blanks and underscores are not drawn).
HexDigits == <<"0", "1", "2", "3", "4", "5", "6", "7", "8", "9",
               "a", "b", "c", "d", "e", "f">>
IsHexDigit(c) == \E i \in DOMAIN HexDigits : HexDigits[i] = c
HexDigitValue(c) == (CHOOSE i \in DOMAIN HexDigits : HexDigits[i] = c) - 1

RECURSIVE HexValue(_)
HexValue(s) ==
    IF s = <<>> THEN 0
    ELSE 16 * HexValue(SubSeq(s, 1, Len(s) - 1)) + HexDigitValue(s[Len(s)])

\* int(self.model.config.get("tac"), 16) under "except ValueError": a string
\* that is no base-16 number gives None; None instead of a string is a
\* TypeError, which the except clause does not catch.
_get_tac_as_int ==
    IF config["tac"] = None
    THEN [raised |-> TRUE, value |-> None]
    ELSE LET s == Val(config["tac"])
         IN  IF s # <<>> /\ \A i \in DOMAIN s : IsHexDigit(s[i])
             THEN [raised |-> FALSE, value |-> Some(HexValue(s))]
             ELSE [raised |-> FALSE, value |-> None]

\* s.split("/")[0]: the characters before the first "/".
RECURSIVE SplitFirst(_)
SplitFirst(s) ==
    IF s = <<>> \/ Head(s) = "/" THEN <<>>
    ELSE <<Head(s)>> \o SplitFirst(Tail(s))

\* The rendered file is the template applied to these values; the file is
\* represented by the values themselves.
_render_gnb_config_file(host, port, gtp, link, ngap, id_length, mcc, mnc, nci, sd, sst, tac) ==
    [amf_hostname |-> host, amf_port |-> port, gnb_gtp_address |-> gtp,
     gnb_link_address |-> link, gnb_ngap_address |-> ngap,
     id_length |-> id_length, mcc |-> mcc, mnc |-> mnc, nci |-> nci,
     sd |-> sd, sst |-> sst, tac |-> tac]

_relation_created == n2_created

---------------------------------------------------------------------------
(* Unit status *)

BlockedStatus(message, detail) ==
    [name |-> "blocked", message |-> message, detail |-> detail]
WaitingStatus(message) ==
    [name |-> "waiting", message |-> message, detail |-> <<>>]
ActiveStatus == [name |-> "active", message |-> "", detail |-> <<>>]
\* The status of a unit no handler has set a status for.
UnknownStatus == [name |-> "unknown", message |-> "", detail |-> <<>>]

---------------------------------------------------------------------------
(* What a handler changes.  A handler works on a record w of the outputs,   *)
(* the calls it has made and whether an exception has ended it.  The        *)
(* collaborators (container, Multus, relation libraries, cluster client)    *)
(* carry out a call they can carry out and raise otherwise: the supervisor  *)
(* when the container cannot be reached or the service is not in its plan,  *)
(* the cluster client when the record to delete does not exist.  The charm  *)
(* catches none of these exceptions.                                        *)

Call(w, name) == [w EXCEPT !.calls = Append(@, name)]
Raise(w) == [w EXCEPT !.raised = TRUE]

\* self._ueransim_container.exists(path) / pull(path).read()
exists(w, path) == w.files[path] # None
pull(w, path) == Val(w.files[path])

\* self._ueransim_container.push(source, path)
push(w, content, path) ==
    Call([w EXCEPT !.files[path] = Some(content)], "push")
\* self._ueransim_container.add_layer("ueransim", layer, combine=True)
add_layer(w) == Call([w EXCEPT !.plan = TRUE], "add_layer")
\* self._ueransim_container.restart / start / stop (service name).  The
\* supervisor answers a request it cannot reach (ConnectionError) or that
\* names a service its plan does not hold (APIError) with an exception.
restart(w) == Call([w EXCEPT !.proc = TRUE], "restart")
start(w) ==
    LET w1 == Call([w EXCEPT !.last_supervisor_call = "start"], "start")
    IN  IF can_connect /\ w.plan THEN [w1 EXCEPT !.proc = TRUE] ELSE Raise(w1)
stop(w) ==
    LET w1 == Call([w EXCEPT !.last_supervisor_call = "stop"], "stop")
    IN  IF can_connect /\ w.plan THEN [w1 EXCEPT !.proc = FALSE] ELSE Raise(w1)
\* self._gnb_identity_provider.publish_gnb_identity_information(...)
publish_gnb_identity_information(w, relation_id, gnb_name, tac) ==
    Call([w EXCEPT !.published[relation_id] =
              Some([gnb_name |-> gnb_name, tac |-> tac])], "publish")
\* lightkube Client.apply(Service ...): creates the record or asserts the one
\* that exists.
apply(w) == Call([w EXCEPT !.k8s_service = TRUE], "apply")
\* lightkube Client.delete(Service, name=...): the cluster answers the delete
\* of a record that does not exist with 404, which the client raises.
delete(w) ==
    IF w.k8s_service
    THEN Call([w EXCEPT !.k8s_service = FALSE], "delete")
    ELSE Raise(Call(w, "delete"))
\* self.unit.status = ...
set_status(w, s) == Call([w EXCEPT !.status = s], "status")
\* A gate of _configure reads a collaborator.
Gate(w, name) == Call(w, name)

---------------------------------------------------------------------------
(* The charm *)

\* set_default storing the default whatever the stored state holds.
set_default_overwrites(w) == [w EXCEPT !.gnb_running = FALSE]

\* self._stored.set_default(gnb_running=False): the default is stored only
\* when the stored state holds no value for the key.
set_default(w) ==
    IF gnb_running_stored THEN w ELSE [w EXCEPT !.gnb_running = FALSE]

\* gnb_nad_config always of type bridge, whatever interface is configured.
gnb_nad_config_always_bridge(address, gnb_interface) ==
    [cniVersion |-> "0.3.1",
     ipam |-> [type |-> "static", addresses |-> <<[address |-> address]>>],
     capabilities |-> [mac |-> TRUE],
     type |-> "bridge", bridge |-> "ran-br"]

\* The dictionary gnb_nad_config of lines 217-232, for an address and an
\* interface as the configuration gives them (Optional values).
gnb_nad_config(address, gnb_interface) ==
    IF gnb_interface # None
    THEN [cniVersion |-> "0.3.1",
          ipam |-> [type |-> "static", addresses |-> <<[address |-> address]>>],
          capabilities |-> [mac |-> TRUE],
          type |-> "macvlan", master |-> Val(gnb_interface)]
    ELSE [cniVersion |-> "0.3.1",
          ipam |-> [type |-> "static", addresses |-> <<[address |-> address]>>],
          capabilities |-> [mac |-> TRUE],
          type |-> "bridge", bridge |-> "ran-br"]

\* The list of NetworkAttachmentDefinition objects; the JSON text of the
\* spec is represented by the dictionary it encodes.
NetworkAttachmentDefinitions(address, gnb_interface) ==
    <<[name |-> GNB_NETWORK_ATTACHMENT_DEFINITION_NAME,
       config |-> gnb_nad_config(address, gnb_interface)]>>

_network_attachment_definitions_from_config ==
    NetworkAttachmentDefinitions(_get_gnb_address_from_config,
                                 _get_gnb_interface_from_config)

\* What the Multus library does on its refresh event: it hands the result of
\* network_attachment_definitions_func to the Network Attachment Service.
_configure_multus(w) ==
    [w EXCEPT !.nad = Some(_network_attachment_definitions_from_config)]

\* self.on.nad_config_changed.emit(): the observers run before emit returns.
nad_config_changed_emit(w) == Call(_configure_multus(w), "nad_config_changed")

_write_config_file(w, content) == push(w, content, ConfigFilePath)

\* _config_file_content_matches comparing the file object, not what it holds.
_config_file_content_matches_never(w, content) == FALSE

\* _config_file_content_matches taking any stored state for a match.
_config_file_content_matches_always(w, content) == TRUE

_config_file_content_matches(w, content) ==
    IF ~exists(w, ConfigFilePath) THEN FALSE
    ELSE IF pull(w, ConfigFilePath) # content THEN FALSE
    ELSE TRUE

\* _configure_ueransim_workload restarting whatever the flag says.
_configure_ueransim_workload_always_restarts(w, restart_) ==
    IF ~w.plan \/ restart_ THEN restart(add_layer(w)) ELSE w

\* _configure_ueransim_workload recording the restarted process as running.
_configure_ueransim_workload_sets_flag(w, restart_) ==
    IF ~w.plan \/ restart_
    THEN [restart(add_layer(w)) EXCEPT !.gnb_running = TRUE]
    ELSE w

\* The plan's services differ from the layer's exactly when the layer, the
\* only one the charm ever adds, is not in the plan.
_configure_ueransim_workload(w, restart_) ==
    IF ~w.plan \/ restart_
    THEN LET w1 == add_layer(w)
         IN  IF w1.gnb_running THEN restart(w1) ELSE w1
    ELSE w

\* for gnb_identity_relation in fiveg_gnb_identity_relations: publish
RECURSIVE PublishAll(_, _, _)
PublishAll(w, relations, tac) ==
    IF relations = {} THEN w
    ELSE LET r == CHOOSE x \in relations : \A y \in relations : x <= y
         IN  PublishAll(publish_gnb_identity_information(w, r, _gnb_name, tac),
                        relations \ {r}, tac)

_update_fiveg_gnb_identity_relation_data(w) ==
    IF gnb_identity_relations = {} THEN w
    ELSE LET tac == _get_tac_as_int
         IN  IF tac.raised THEN Raise(w)
             ELSE IF tac.value = None \/ Val(tac.value) = 0 THEN w
             ELSE PublishAll(w, gnb_identity_relations, Val(tac.value))

\* "not amf_hostname or not amf_port": None, "" and 0 are falsy.
N2InformationMissing ==
    Not(amf_hostname) \/ amf_port = None \/ Val(amf_port) = 0

\* RenderedContent with the whole configured address as GTP address.
RenderedContent_unstripped ==
    _render_gnb_config_file(Val(amf_hostname), Val(amf_port),
        Val(_get_gnb_address_from_config), unit_ip, unit_ip,
        Val(_get_id_length_from_config), Val(_get_mcc_from_config),
        Val(_get_mnc_from_config), Val(_get_nci_from_config),
        Val(_get_sd_from_config), _get_sst_from_config.value,
        Val(_get_tac_from_config))

\* The content _configure renders from the inputs (lines 130-143).
RenderedContent ==
    _render_gnb_config_file(Val(amf_hostname), Val(amf_port),
        SplitFirst(Val(_get_gnb_address_from_config)), unit_ip, unit_ip,
        Val(_get_id_length_from_config), Val(_get_mcc_from_config),
        Val(_get_mnc_from_config), Val(_get_nci_from_config),
        Val(_get_sd_from_config), _get_sst_from_config.value,
        Val(_get_tac_from_config))

\* Lines 144-149: write when the content differs, publish, become active.
WriteAndPublish(w) ==
    LET content == RenderedContent
        w1 == IF ~_config_file_content_matches(w, content)
              THEN _configure_ueransim_workload(
                       _write_config_file(w, content), TRUE)
              ELSE w
        w2 == _update_fiveg_gnb_identity_relation_data(w1)
    IN  IF w2.raised THEN w2 ELSE set_status(w2, ActiveStatus)

\* _configure without the gate on the AMF hostname and port: it goes on to
\* Active when they are not known.
_configure_without_n2_information_gate(w) ==
    LET invalid_configs == _get_invalid_configs
        w1 == nad_config_changed_emit(w)
        w2 == Gate(w1, "_relation_created")
        w3 == Gate(w2, "can_connect")
        w4 == Gate(w3, "exists")
        w5 == Gate(w4, "is_ready")
        w6 == Gate(w5, "n2_information")
    IN  IF invalid_configs.raised THEN Raise(w)
        ELSE IF invalid_configs.value # <<>>
        THEN set_status(w, BlockedStatus("Configurations are invalid: ",
                                         invalid_configs.value))
        ELSE IF ~_relation_created
        THEN set_status(w2,
                 BlockedStatus("Waiting for N2 relation to be created", <<>>))
        ELSE IF ~can_connect
        THEN set_status(w3, WaitingStatus("Waiting for container to be ready"))
        ELSE IF ~base_dir
        THEN set_status(w4, WaitingStatus("Waiting for storage to be attached"))
        ELSE IF ~multus_ready
        THEN set_status(w5, WaitingStatus("Waiting for Multus to be ready"))
        ELSE IF N2InformationMissing
        THEN set_status(w6, ActiveStatus)
        ELSE WriteAndPublish(w6)

\* _configure declaring the attachment only once the N2 relation is there.
_configure_declares_after_relation_gate(w) ==
    LET invalid_configs == _get_invalid_configs
        w1 == Gate(w, "_relation_created")
        w2 == nad_config_changed_emit(w1)
        w3 == Gate(w2, "can_connect")
        w4 == Gate(w3, "exists")
        w5 == Gate(w4, "is_ready")
        w6 == Gate(w5, "n2_information")
    IN  IF invalid_configs.raised THEN Raise(w)
        ELSE IF invalid_configs.value # <<>>
        THEN set_status(w, BlockedStatus("Configurations are invalid: ",
                                         invalid_configs.value))
        ELSE IF ~_relation_created
        THEN set_status(w1,
                 BlockedStatus("Waiting for N2 relation to be created", <<>>))
        ELSE IF ~can_connect
        THEN set_status(w3, WaitingStatus("Waiting for container to be ready"))
        ELSE IF ~base_dir
        THEN set_status(w4, WaitingStatus("Waiting for storage to be attached"))
        ELSE IF ~multus_ready
        THEN set_status(w5, WaitingStatus("Waiting for Multus to be ready"))
        ELSE IF N2InformationMissing
        THEN set_status(w6, WaitingStatus("Waiting for N2 information"))
        ELSE WriteAndPublish(w6)

_configure(w) ==
    LET invalid_configs == _get_invalid_configs
        w1 == nad_config_changed_emit(w)
        w2 == Gate(w1, "_relation_created")
        w3 == Gate(w2, "can_connect")
        w4 == Gate(w3, "exists")
        w5 == Gate(w4, "is_ready")
        w6 == Gate(w5, "n2_information")
    IN  IF invalid_configs.raised THEN Raise(w)
        ELSE IF invalid_configs.value # <<>>
        THEN set_status(w, BlockedStatus("Configurations are invalid: ",
                                         invalid_configs.value))
        ELSE IF ~_relation_created
        THEN set_status(w2,
                 BlockedStatus("Waiting for N2 relation to be created", <<>>))
        ELSE IF ~can_connect
        THEN set_status(w3, WaitingStatus("Waiting for container to be ready"))
        ELSE IF ~base_dir
        THEN set_status(w4, WaitingStatus("Waiting for storage to be attached"))
        ELSE IF ~multus_ready
        THEN set_status(w5, WaitingStatus("Waiting for Multus to be ready"))
        ELSE IF N2InformationMissing
        THEN set_status(w6, WaitingStatus("Waiting for N2 information"))
        ELSE WriteAndPublish(w6)

_on_install(w) == apply(w)

_on_remove(w) == delete(w)

\* _on_start_radio_action without the test of the flag.
_on_start_radio_action_unguarded(w) ==
    LET w1 == _configure(w)
        w2 == start(w1)
    IN  IF w1.raised THEN w1
        ELSE IF w2.raised THEN w2
        ELSE [w2 EXCEPT !.gnb_running = TRUE, !.last_toggle = "start"]

\* _on_start_radio_action starting the process before it runs _configure.
_on_start_radio_action_starts_first(w) ==
    LET w1 == start(w)
        w2 == _configure([w1 EXCEPT !.gnb_running = TRUE,
                                    !.last_toggle = "start"])
    IN  IF w.gnb_running THEN _configure(w)
        ELSE IF w1.raised THEN w1
        ELSE w2

_on_start_radio_action(w) ==
    LET w1 == _configure(w)
        w2 == start(w1)
    IN  IF w1.raised THEN w1
        ELSE IF ~w1.gnb_running
        THEN IF w2.raised THEN w2
             ELSE [w2 EXCEPT !.gnb_running = TRUE, !.last_toggle = "start"]
        ELSE w1

_on_stop_radio_action(w) ==
    LET w1 == _configure(w)
        w2 == stop(w1)
    IN  IF w1.raised THEN w1
        ELSE IF w1.gnb_running
        THEN IF w2.raised THEN w2
             ELSE [w2 EXCEPT !.gnb_running = FALSE, !.last_toggle = "stop"]
        ELSE w1

_on_fiveg_gnb_identity_request(w) ==
    IF ~is_leader THEN w
    ELSE _update_fiveg_gnb_identity_relation_data(w)

---------------------------------------------------------------------------
(* The inputs the model draws *)

MaxAddrLen == 2
MaxTacLen == 1
MaxIdentityRelations == 1

AddrChars == {"1", "/"}
TacChars == {"0", "a", "g"}
RelationIds == 1..MaxIdentityRelations

\* The configuration of the unit tests and of the spec's end-to-end case.
DefaultConfig ==
    [k \in Keys |->
        CASE k = "gnb-address" ->
                 Some(<<"1", "0", ".", "0", ".", "0", ".", "1", "/", "2", "4">>)
          [] k = "gnb-interface" -> None
          [] k = "id-length" -> Some(<<"3", "2">>)
          [] k = "mcc" -> Some(<<"2", "0", "8">>)
          [] k = "mnc" -> Some(<<"9", "3">>)
          [] k = "nci" -> Some(<<"0", "x", "1">>)
          [] k = "sd" -> Some(<<"1">>)
          [] k = "sst" -> Some(1)
          [] k = "tac" -> Some(<<"1">>)]

\* The values an option takes besides its default: unset, empty, and for the
\* address and the tracking-area code every string up to the length bound.
Values(k) ==
    CASE k = "gnb-address" -> {None} \cup {Some(s) : s \in Strs(AddrChars, MaxAddrLen)}
      [] k = "gnb-interface" -> {Some(<<"e", "t", "h", "0">>), Some(<<>>)}
      [] k = "sst" -> {None, Some(0)}
      [] k = "tac" -> {None} \cup {Some(s) : s \in Strs(TacChars, MaxTacLen)}
      [] k = "mcc" -> {Some(<<>>)}
      [] k = "sd" -> {None}
      [] OTHER -> {}

\* The default configuration and those that differ from it in one option.
Configs ==
    {DefaultConfig} \cup
    UNION {{[DefaultConfig EXCEPT ![k] = v] : v \in Values(k)} : k \in Keys}

AmfHostnames == {None, Some(<<"a", "m", "f">>)}
AmfPorts == {None, Some(38412)}

---------------------------------------------------------------------------
(* Specification *)

\* The file a pass wrote earlier under the default configuration.
EarlierContent ==
    _render_gnb_config_file(<<"a", "m", "f">>, 38412,
        SplitFirst(Val(DefaultConfig["gnb-address"])), unit_ip, unit_ip,
        Val(DefaultConfig["id-length"]), Val(DefaultConfig["mcc"]),
        Val(DefaultConfig["mnc"]), Val(DefaultConfig["nci"]),
        Val(DefaultConfig["sd"]), Val(DefaultConfig["sst"]),
        Val(DefaultConfig["tac"]))

\* The charm object is constructed anew for every event (lines 63-99): what
\* it finds is any combination of the inputs, and what earlier events left:
\* no configuration file or the one of an earlier pass, the layer that was
\* added with that file and the attachment declared with it, and the stored
\* flag as the last start-radio or stop-radio action left it, with the
\* process it started, which the supervisor starts only once the layer is in
\* its plan.  A unit that has handled no event has stored no flag.
\* Leadership is read only where an identity relation exists (lines 246-253).
\* The attachment a pass declared earlier under the default configuration.
EarlierDeclaration ==
    NetworkAttachmentDefinitions(DefaultConfig["gnb-address"],
                                 DefaultConfig["gnb-interface"])

Init ==
    /\ config \in Configs
    /\ n2_created \in BOOLEAN
    /\ amf_hostname \in (IF n2_created THEN AmfHostnames ELSE {None})
    /\ amf_port \in (IF amf_hostname # None THEN AmfPorts ELSE {None})
    /\ can_connect \in BOOLEAN
    /\ base_dir \in (IF can_connect THEN BOOLEAN ELSE {FALSE})
    /\ multus_ready \in BOOLEAN
    /\ gnb_identity_relations \in {1..n : n \in 0..MaxIdentityRelations}
    /\ is_leader \in (IF gnb_identity_relations # {} THEN BOOLEAN ELSE {TRUE})
    /\ status = UnknownStatus
    /\ \E f \in {None, Some(EarlierContent)} :
          /\ files = [p \in Paths |-> IF p = ConfigFilePath THEN f ELSE None]
          /\ plan = (f # None)
          /\ nad = (IF f # None THEN Some(EarlierDeclaration) ELSE None)
    /\ \E h \in (IF plan THEN {"none", "start", "stop"} ELSE {"none"}) :
          /\ last_toggle = h
          /\ last_supervisor_call = h
          /\ gnb_running = (h = "start")
          /\ gnb_running_stored \in
                 (IF h = "none" /\ ~plan THEN BOOLEAN ELSE {TRUE})
    /\ proc = gnb_running
    /\ published = [r \in RelationIds |-> None]
    /\ k8s_service = FALSE
    /\ event = "none"
    /\ calls = <<>>
    /\ raised = FALSE

\* The record a handler starts from: what the constructor (lines 63-99)
\* finds, with the default of the flag set.
Begin ==
    set_default(
        [status |-> status, files |-> files, plan |-> plan, proc |-> proc,
         gnb_running |-> gnb_running, published |-> published,
         k8s_service |-> k8s_service, nad |-> nad,
         last_toggle |-> last_toggle,
         last_supervisor_call |-> last_supervisor_call,
         calls |-> <<>>, raised |-> FALSE])

\* The host runs handler e, which ends in w.  The inputs stay as they are.
\* The stored state is committed when the handler returns.
Handle(e, w) ==
    /\ event' = e
    /\ status' = w.status
    /\ files' = w.files
    /\ plan' = w.plan
    /\ proc' = w.proc
    /\ gnb_running' = w.gnb_running
    /\ gnb_running_stored' = (gnb_running_stored \/ ~w.raised)
    /\ published' = w.published
    /\ k8s_service' = w.k8s_service
    /\ nad' = w.nad
    /\ last_toggle' = w.last_toggle
    /\ last_supervisor_call' = w.last_supervisor_call
    /\ calls' = w.calls
    /\ raised' = w.raised
    /\ UNCHANGED inputs

\* The observers of lines 87-98, named by the event observed.
install == Handle("_on_install", _on_install(Begin))
remove == Handle("_on_remove", _on_remove(Begin))
config_changed == Handle("_configure", _configure(Begin))
ueransim_pebble_ready ==
    /\ can_connect
    /\ Handle("_configure", _configure(Begin))
fiveg_n2_relation_joined ==
    /\ n2_created
    /\ Handle("_configure", _configure(Begin))
n2_information_available ==
    /\ n2_created /\ ~N2InformationMissing
    /\ Handle("_configure", _configure(Begin))
start_radio_action ==
    Handle("_on_start_radio_action", _on_start_radio_action(Begin))
stop_radio_action ==
    Handle("_on_stop_radio_action", _on_stop_radio_action(Begin))
fiveg_gnb_identity_request ==
    /\ gnb_identity_relations # {}
    /\ Handle("_on_fiveg_gnb_identity_request",
              _on_fiveg_gnb_identity_request(Begin))

Next ==
    \/ install
    \/ remove
    \/ config_changed
    \/ ueransim_pebble_ready
    \/ fiveg_n2_relation_joined
    \/ n2_information_available
    \/ start_radio_action
    \/ stop_radio_action
    \/ fiveg_gnb_identity_request

Spec == Init /\ [][Next]_vars

---------------------------------------------------------------------------
(* What the claims speak of *)

\* The required options, in sorted order.
RequiredKeys == <<"gnb-address", "id-length", "mcc", "mnc", "nci", "sd", "sst", "tac">>

\* An option is missing or empty: unset, the empty string, or the number 0.
Missing(k) ==
    \/ config[k] = None
    \/ IF k = "sst" THEN Val(config[k]) = 0 ELSE Val(config[k]) = <<>>

MissingList == SelectSeq(RequiredKeys, Missing)
ConfigValid == MissingList = <<>>
AmfKnown == amf_hostname # None /\ amf_port # None
AllGatesPass ==
    /\ ConfigValid /\ n2_created /\ can_connect /\ base_dir /\ multus_ready
    /\ AmfKnown

\* The last step ran a handler that runs the gate sequence.
RanConfigure ==
    event \in {"_configure", "_on_start_radio_action", "_on_stop_radio_action"}

\* The status of the first failing gate.
GateStatus ==
    IF ~ConfigValid
    THEN BlockedStatus("Configurations are invalid: ", MissingList)
    ELSE IF ~n2_created
    THEN BlockedStatus("Waiting for N2 relation to be created", <<>>)
    ELSE IF ~can_connect THEN WaitingStatus("Waiting for container to be ready")
    ELSE IF ~base_dir THEN WaitingStatus("Waiting for storage to be attached")
    ELSE IF ~multus_ready THEN WaitingStatus("Waiting for Multus to be ready")
    ELSE IF ~AmfKnown THEN WaitingStatus("Waiting for N2 information")
    ELSE ActiveStatus

\* An address without its CIDR suffix: its longest prefix that holds no "/"
\* and ends where the address ends or a "/" follows.
StripCidr(a) ==
    CHOOSE p \in {SubSeq(a, 1, n) : n \in 0..Len(a)} :
        /\ \A i \in DOMAIN p : p[i] # "/"
        /\ Len(p) = Len(a) \/ a[Len(p) + 1] = "/"

\* The artifact of the current configuration, AMF endpoint and bind address.
ExpectedArtifact ==
    [amf_hostname |-> Val(amf_hostname), amf_port |-> Val(amf_port),
     gnb_gtp_address |-> StripCidr(Val(config["gnb-address"])),
     gnb_link_address |-> unit_ip, gnb_ngap_address |-> unit_ip,
     id_length |-> Val(config["id-length"]), mcc |-> Val(config["mcc"]),
     mnc |-> Val(config["mnc"]), nci |-> Val(config["nci"]),
     sd |-> Val(config["sd"]), sst |-> Val(config["sst"]),
     tac |-> Val(config["tac"])]

InCalls(name) == \E i \in DOMAIN calls : calls[i] = name
InCallsNext(name) == \E i \in DOMAIN calls' : calls'[i] = name

---------------------------------------------------------------------------
(* Claims *)

\* C1 (as claimed): every pass of the gate sequence ends, without an error,
\* in the status of the first failing gate, in the order invalid
\* configuration, N2 relation, container, storage, Multus, N2 information,
\* and in Active when no gate fails.
C1_FirstFailingGate ==
    RanConfigure =>
        /\ event = "_configure" => ~raised
        /\ status = GateStatus

\* C2 (as claimed): with a required option missing or empty the pass ends,
\* without raising, in Blocked with exactly the missing options listed in
\* sorted order, and writes nothing to the workload.
C2_BlockedListsMissing ==
    RanConfigure /\ ~ConfigValid =>
        /\ event = "_configure" => ~raised
        /\ status = BlockedStatus("Configurations are invalid: ", MissingList)
        /\ ~InCalls("push") /\ ~InCalls("add_layer")

C4_SecondPassWritesNothing ==
    event = "_configure" =>
        LET w == _configure(Begin)
            Called(name) == \E i \in DOMAIN w.calls : w.calls[i] = name
        IN  /\ ~Called("push")
            /\ ~Called("add_layer")
            /\ ~Called("restart")
            /\ w.status = status
            /\ w.files = files
            /\ w.gnb_running = gnb_running
            /\ w.raised = raised

\* C4 witness: the last pass wrote nothing and left the unit active, and the
\* stored file is one a pass before it wrote.
C4_Witness ==
    /\ event = "_configure" /\ status = ActiveStatus /\ ~InCalls("push")
    /\ files[ConfigFilePath] \notin {None, Some(EarlierContent)}

\* C5: only the start-radio and stop-radio handlers change the stored
\* running flag; every other handler leaves it as it is, on every gate path.
C5_FlagOnlyByActions ==
    [][gnb_running' # gnb_running =>
          event' \in {"_on_start_radio_action", "_on_stop_radio_action"}]_vars

\* C5 witness: a configure pass wrote the file and restarted the running
\* process, and the flag is still set.
C5_Witness ==
    /\ event = "_configure" /\ InCalls("restart") /\ gnb_running
    /\ status = ActiveStatus

\* C6: a start-radio action with the flag set, and a stop-radio action with
\* the flag clear, call neither start nor stop, leave the flag, and do only
\* what the gate sequence alone does.
C6_MatchingActionIsNoOp ==
    [][(\/ event' = "_on_start_radio_action" /\ gnb_running
        \/ event' = "_on_stop_radio_action" /\ ~gnb_running) =>
          \E w \in {_configure(Begin)} :
              /\ ~InCallsNext("start")
              /\ ~InCallsNext("stop")
              /\ gnb_running' = gnb_running
              /\ calls' = w.calls
              /\ raised' = w.raised
              /\ <<status', files', plan', proc', published', k8s_service'>> =
                 <<w.status, w.files, w.plan, w.proc, w.published, w.k8s_service>>]_vars

\* C6 witness: a start-radio action ran to its end without a start call, so
\* the flag was already set, and it is set.
C6_Witness ==
    /\ event = "_on_start_radio_action" /\ ~raised /\ gnb_running
    /\ ~InCalls("start")

\* C7 (as claimed): a unit that is not the leader publishes no identity, in
\* any handler.
C7_NonLeaderNeverPublishes == ~is_leader => ~InCalls("publish")

\* The configured tracking-area code is a base-16 number.
TacParses ==
    /\ config["tac"] # None
    /\ Val(config["tac"]) # <<>>
    /\ \A i \in DOMAIN Val(config["tac"]) : IsHexDigit(Val(config["tac"])[i])

\* C8 (as claimed): when the leader runs the publish step, with a downstream
\* relation and a tracking-area code that parses, every downstream relation
\* holds the name and that number, the number 0 included.
C8_LeaderPublishesEveryTac ==
    /\ is_leader
    /\ \/ event = "_on_fiveg_gnb_identity_request"
       \/ RanConfigure /\ ~raised /\ status = ActiveStatus
    /\ gnb_identity_relations # {}
    /\ TacParses
    => \A r \in gnb_identity_relations :
           published[r] = Some([gnb_name |-> _gnb_name,
                                tac |-> HexValue(Val(config["tac"]))])

\* C9 (as claimed): when the publish step runs and the tracking-area code
\* does not parse, nothing is published, no error is raised, and a pass
\* still ends in Active.
C9_UnparseableTacSkipped ==
    /\ \/ event = "_on_fiveg_gnb_identity_request" /\ is_leader
       \/ RanConfigure /\ AllGatesPass
    /\ ~TacParses
    => /\ ~raised
       /\ ~InCalls("publish")
       /\ RanConfigure => status = ActiveStatus

\* C10: a handler that runs the gate sequence restarts the process exactly
\* when it pushed the file and the flag was set; a pass that gets to the
\* comparison pushes exactly when the stored file is absent or differs; and
\* a configure pass that pushes with the flag clear adds the layer, calls
\* neither restart nor start, and the process stays stopped.
C10_RestartIffWrittenAndRunning ==
    [][event' \in {"_configure", "_on_start_radio_action", "_on_stop_radio_action"} =>
          /\ InCallsNext("restart") <=> (InCallsNext("push") /\ gnb_running)
          /\ AllGatesPass =>
                (InCallsNext("push") <=> files[ConfigFilePath] # Some(ExpectedArtifact))
          /\ event' = "_configure" /\ InCallsNext("push") /\ ~gnb_running =>
                /\ InCallsNext("add_layer")
                /\ ~InCallsNext("restart")
                /\ ~InCallsNext("start")
                /\ ~proc']_vars

\* C10 witness: a configure pass pushed the file, added the layer and
\* restarted the process.
C10_Witness ==
    /\ event = "_configure" /\ InCalls("push") /\ InCalls("add_layer")
    /\ InCalls("restart") /\ proc

\* C11 (as claimed): with a valid configuration, the N2 relation, a reachable
\* workload and the base directory, but no AMF hostname or port, a pass ends
\* in Waiting("Waiting for N2 information"), whatever Multus reports.
C11_WaitingForN2_AsClaimed ==
    /\ RanConfigure
    /\ ConfigValid /\ n2_created /\ can_connect /\ base_dir /\ ~AmfKnown
    => status = WaitingStatus("Waiting for N2 information")

\* C11 (amended): with a valid configuration, the N2 relation, a reachable
\* workload, the base directory and Multus ready, but no AMF hostname or
\* port, a pass ends in Waiting("Waiting for N2 information") and writes
\* nothing to the workload.
C11_WaitingForN2Information ==
    /\ RanConfigure
    /\ ConfigValid /\ n2_created /\ can_connect /\ base_dir /\ multus_ready
    /\ ~AmfKnown
    => /\ status = WaitingStatus("Waiting for N2 information")
       /\ ~InCalls("push") /\ ~InCalls("add_layer")

\* C11 witness: a pass found the AMF hostname published but not the port,
\* every earlier gate passing, and left the unit waiting for them.
C11_Witness ==
    /\ event = "_configure"
    /\ ConfigValid /\ n2_created /\ can_connect /\ base_dir /\ multus_ready
    /\ amf_hostname # None /\ amf_port = None
    /\ status = WaitingStatus("Waiting for N2 information")

\* The reads of the gates that follow the validation of the configuration.
GateReads == {"_relation_created", "can_connect", "exists", "is_ready", "n2_information"}

\* C12: every pass of the gate sequence with a valid configuration declares
\* the network attachment of the current configuration, once, before it
\* reads the N2-relation gate or any later gate and before it sets a status
\* or writes anything, whatever gate the pass ends at.
C12_NadDeclaredBeforeGates ==
    RanConfigure /\ ConfigValid =>
        /\ calls # <<>>
        /\ calls[1] = "nad_config_changed"
        /\ \A i \in DOMAIN calls : i > 1 => calls[i] # "nad_config_changed"
        /\ \E i \in DOMAIN calls : calls[i] \in GateReads
        /\ nad = Some(_network_attachment_definitions_from_config)

\* C12 witness: a pass that ended Blocked on the missing N2 relation has read
\* that gate after declaring the attachment.
C12_Witness ==
    /\ event = "_configure" /\ ConfigValid /\ ~n2_created
    /\ status = BlockedStatus("Waiting for N2 relation to be created", <<>>)
    /\ calls = <<"nad_config_changed", "_relation_created", "status">>
    /\ nad # None

\* C13: a start-radio or stop-radio action first does all that the gate
\* sequence alone does from the same state, in the same order (its reads,
\* status update, file push, layer and restart); a start or stop call is
\* the one thing that may follow, and when all gates pass and start is
\* called, the stored file is the artifact of the current inputs, as the
\* gate sequence left it.
C13_GatesBeforeToggle ==
    [][event' \in {"_on_start_radio_action", "_on_stop_radio_action"} =>
          \E w \in {_configure(Begin)} :
          LET n == Len(w.calls)
          IN  /\ Len(calls') \in {n, n + 1}
              /\ SubSeq(calls', 1, n) = w.calls
              /\ status' = w.status
              /\ files' = w.files
              /\ plan' = w.plan
              /\ \A i \in DOMAIN calls' :
                    calls'[i] \in {"start", "stop"} => i = n + 1
              /\ Len(calls') = n + 1 =>
                    /\ ~w.raised
                    /\ calls'[n + 1] =
                          (IF event' = "_on_start_radio_action"
                           THEN "start" ELSE "stop")
              /\ AllGatesPass /\ InCallsNext("start") =>
                    /\ files'[ConfigFilePath] = Some(ExpectedArtifact)
                    /\ proc' /\ gnb_running']_vars

\* C13 witness: a start-radio action with all gates passing pushed the
\* file, added the layer, set the status and then, last, called start.
C13_Witness ==
    /\ event = "_on_start_radio_action" /\ AllGatesPass
    /\ InCalls("push") /\ InCalls("add_layer") /\ InCalls("status")
    /\ calls[Len(calls)] = "start"
    /\ files[ConfigFilePath] = Some(ExpectedArtifact)
    /\ proc /\ gnb_running

\* C14 (as claimed): when a pass triggered by the N2 events or by
\* config-changed finds all gates passing and pushes the file, the push has
\* the rendered artifact as its source and /etc/ueransim/gnb.yaml as its
\* path.
C14_PushToTestPath ==
    event = "_configure" /\ AllGatesPass /\ InCalls("push") =>
        files[TestConfigFilePath] = Some(ExpectedArtifact)

\* C15 (as claimed): the install handler applies and the remove handler
\* deletes the Service record whatever the inputs and the status are; both
\* end without an error, install also when the record is there and remove
\* also when it is not; and neither changes the status, the running flag or
\* the stored file.
C15_ServiceRecordUnconditional ==
    [][event' \in {"_on_install", "_on_remove"} =>
          /\ ~raised'
          /\ calls' = <<(IF event' = "_on_install" THEN "apply" ELSE "delete")>>
          /\ k8s_service' = (event' = "_on_install")
          /\ UNCHANGED <<status, files, plan, proc, gnb_running>>]_vars

\* A pass has pushed the file or has set the status Active.
WroteOrActive ==
    RanConfigure /\ (InCalls("push") \/ (InCalls("status") /\ status = ActiveStatus))

\* C16 (as claimed): a pass pushes the file or reaches Active only with
\* every required option present and non-empty and a tracking-area code
\* that is a base-16 number.
C16_ValidAndTacParses_AsClaimed == WroteOrActive => ConfigValid /\ TacParses

\* C16 (amended): a pass pushes the file or reaches Active only with every
\* required option present and non-empty, and the file it leaves is the
\* artifact of those options; the tracking-area code has to be non-empty but
\* not a base-16 number: with all gates passing and a non-empty code that
\* does not parse, the pass still leaves the artifact and ends Active.
C16_ArtifactFromValidatedConfig ==
    /\ WroteOrActive =>
          /\ ConfigValid
          /\ files[ConfigFilePath] = Some(ExpectedArtifact)
    /\ RanConfigure /\ AllGatesPass /\ ~TacParses =>
          /\ status = ActiveStatus
          /\ files[ConfigFilePath] = Some(ExpectedArtifact)

\* C16 witness: a pass has pushed an artifact whose tracking-area code is
\* not a base-16 number and has ended Active.
C16_Witness ==
    /\ event = "_configure" /\ InCalls("push") /\ status = ActiveStatus
    /\ ConfigValid /\ ~TacParses
    /\ Val(files[ConfigFilePath]).tac = Val(config["tac"])

\* C17: the stored flag is false as long as no action has written it, and
\* otherwise it is what the last action that wrote it left (true after
\* start-radio, false after stop-radio), however many handlers, each with a
\* newly constructed charm object, have run since; a handler that returns
\* leaves a value stored.
C17_FlagIsLastToggle ==
    /\ gnb_running = (last_toggle = "start")
    /\ last_toggle \in {"none", "start", "stop"}
    /\ event # "none" /\ ~raised => gnb_running_stored

\* C17 witness: after a pass and then the install handler, each run by a
\* charm object of its own, the flag a start-radio action set is still set.
C17_Witness ==
    /\ event = "_on_install" /\ status = ActiveStatus
    /\ last_toggle = "start" /\ gnb_running /\ gnb_running_stored

\* C18: for every configuration the declaration is one descriptor named
\* "gnb-net" whose IPAM is of type "static" with the one configured
\* gnb-address and whose capability mac is true; it is of type "macvlan"
\* with the configured interface as master when gnb-interface is set, and
\* of type "bridge" with bridge "ran-br" when it is not set; it holds
\* nothing else that varies, and a pass with a valid configuration hands
\* Multus exactly this declaration.
C18_NadFromConfigOnly ==
    LET nads == _network_attachment_definitions_from_config
        c == nads[1].config
    IN  /\ Len(nads) = 1
        /\ nads[1].name = "gnb-net"
        /\ c.ipam.type = "static"
        /\ c.ipam.addresses = <<[address |-> config["gnb-address"]]>>
        /\ c.capabilities = [mac |-> TRUE]
        /\ IF config["gnb-interface"] # None
           THEN /\ c.type = "macvlan"
                /\ c.master = Val(config["gnb-interface"])
                /\ "bridge" \notin DOMAIN c
           ELSE /\ c.type = "bridge"
                /\ c.bridge = "ran-br"
                /\ "master" \notin DOMAIN c
        /\ DOMAIN c = {"cniVersion", "ipam", "capabilities", "type",
                        IF config["gnb-interface"] # None
                        THEN "master" ELSE "bridge"}
        /\ RanConfigure /\ ConfigValid => nad = Some(nads)

\* C18 witness: a pass has declared a macvlan attachment on the configured
\* interface eth0.
C18_Witness ==
    /\ event = "_configure"
    /\ config["gnb-interface"] = Some(<<"e", "t", "h", "0">>)
    /\ nad # None
    /\ Val(nad)[1].config.type = "macvlan"
    /\ Val(nad)[1].config.master = <<"e", "t", "h", "0">>

\* C19: when a handler that runs the gate sequence has set the status
\* Active, the file stored in the workload is the artifact of the inputs
\* that pass read, every gate was read, and every gate condition holds:
\* the configuration is valid, the N2 relation is there, the workload can be
\* reached, the base directory exists, Multus is ready and the AMF hostname
\* and port are known.
C19_ActiveImpliesConverged ==
    RanConfigure /\ InCalls("status") /\ status = ActiveStatus =>
        /\ files[ConfigFilePath] = Some(ExpectedArtifact)
        /\ ConfigValid /\ n2_created /\ can_connect /\ base_dir
        /\ multus_ready /\ AmfKnown
        /\ InCalls("is_ready") /\ InCalls("n2_information")

\* C19 witness: a stop-radio action found the stored file equal to what it
\* rendered, pushed nothing, set the status Active and stopped the process.
C19_Witness ==
    /\ event = "_on_stop_radio_action" /\ status = ActiveStatus
    /\ InCalls("status") /\ ~InCalls("push") /\ InCalls("stop")
    /\ files[ConfigFilePath] = Some(ExpectedArtifact)
    /\ files[ConfigFilePath] # Some(EarlierContent)

\* C20 (as claimed): a start call is issued only when the last start or
\* stop call before it was not a start, a stop call only when it was a
\* start; after every handler the flag is true exactly when the last of
\* these calls was a start; and a restart call is issued only with the flag
\* true.
C20_StartStopAlternate ==
    [][/\ InCallsNext("start") => last_supervisor_call # "start"
       /\ InCallsNext("stop") => last_supervisor_call = "start"
       /\ gnb_running' = (last_supervisor_call' = "start")
       /\ InCallsNext("restart") => gnb_running]_vars

\* C21 (as claimed): a start call is issued to the supervisor, and the flag
\* goes from false to true, only in a handler that leaves the service layer
\* in the plan and the artifact file stored in the workload; a start-radio
\* action whose gate sequence stops with no file ever written issues no
\* start call and does not set the flag.
C21_StartOnlyWhenInstalled ==
    [][/\ InCallsNext("start") =>
            plan' /\ files'[ConfigFilePath] # None
       /\ gnb_running' /\ ~gnb_running =>
            plan' /\ files'[ConfigFilePath] # None]_vars

====
